---- MODULE Spec2Model ----
(***************************************************************************)
(* PROMETHEUS Global Infrastructure Brain: the multi-cloud orchestrator    *)
(* (placement, autoscaling, routing), the self-healing engine and the      *)
(* brain's management loop of src/src/infrastructure_brain.py as a state   *)
(* machine.                                                                *)
(*                                                                         *)
(* Specifications: Spec (the orchestrator and the engine called in any     *)
(* order), SpecScaling (placement and autoscaling alone), SpecRouting      *)
(* (pools of different latency), SpecMigration (pools found loaded) and    *)
(* SpecBrain (initialize, then run_management_cycle).                      *)
(*                                                                         *)
(* Numbers: loads and capacities are Python ints.  The float comparisons   *)
(* of the source are modelled by exact integer arithmetic:                 *)
(*   load / capacity < load' / capacity'  as a cross multiplication,       *)
(*   load > capacity * 0.95               as 20 * load > 19 * capacity,    *)
(*   load < capacity * 0.9                as 10 * load < 9 * capacity,     *)
(*   int(load * 0.2)                      as load \div 5,                  *)
(* which agree with IEEE doubles for every load and capacity of the model. *)
(* Health scores are in tenths (10 is 1.0), uptime in tenths of a percent. *)
(***************************************************************************)
EXTENDS Integers, Sequences, FiniteSets, TLC

\* ------------------------------------------------------------- bounds
MaxPools == 3
MaxTime == 1
MaxPlacements == 2
MaxHealing == 2
MaxFaults == 1
MaxScalePlacements == 3
MaxCycles == 2
MaxBatches == 4

\* ------------------------------------------------------------- constants
HEALTHY == "healthy"
DEGRADED == "degraded"
CRITICAL == "critical"
OFFLINE == "offline"
RegionStatus == {HEALTHY, DEGRADED, CRITICAL, OFFLINE}

\* The pool ids f"{provider.value}-{region}" in registration order.
Regions ==
  << "aws-us-east-1", "gcp-us-west-1", "azure-eu-west-1", "aws-eu-central-1",
     "aws-ap-southeast-1", "gcp-ap-northeast-1", "azure-ap-south-1",
     "aws-sa-east-1", "oracle-me-south-1", "alibaba-cn-north-1",
     "azure-af-south-1", "aws-ca-central-1" >>

\* Capacities a DataCenter is constructed with (the fleet of the source
\* uses 100000 throughout; a pool of 100 or 1000 units is overloaded by
\* one or two placements).
Capacities == {100, 1000}
\* latency_ms, drawn by random.uniform(10, 100).
BaseLatency == 10
Latencies == {10, 20}
ServiceNames == {"api-gateway", "auth-service"}
\* Health scores (tenths) an instance can report besides 1.0.
SickHealths == {3, 5}
\* Loads a pool is found with when the engine looks at it.
Loads == {0, 96, 99, 1000}

LoadUnit == 1000
FullHealth == 10
HealthThreshold == 5
RecoveredUptime == 999
InitialUptime == 1000
HealedCpu == 50
HealedMemory == 60
RequestsPerCycle == 50000
TrafficPerScale == 100000
ScaleTarget == 15

\* ------------------------------------------------------------- state
VARIABLES
  datacenters,      \* orchestrator.datacenters: the pools, in dict order
  services,         \* orchestrator.services: the instances, in dict order
  now,              \* the last reading of int(time.time())
  healing_actions,  \* SelfHealingEngine.healing_actions
  faults,           \* the faults the environment has reported so far
  monitorOver,      \* pool ids above capacity when the last monitor call returned
  last,             \* the last call: operation, arguments, result, state before
  created,          \* the ids of the instances of the table, oldest instance first
  placements,       \* the placements deploy_service has performed so far
  global_traffic,   \* orchestrator.global_traffic
  total_requests_served, \* PrometheusInfrastructureBrain.total_requests_served
  pc,               \* where run_management_cycle is
  cycle,            \* run_management_cycle: the loop variable
  cycles,           \* run_management_cycle: the argument
  atStart           \* global_traffic and the instance ids when the run began

\* The state of the brain's control loop.
brain == <<global_traffic, total_requests_served, pc, cycle, cycles, atStart>>

vars == <<datacenters, services, now, healing_actions, faults, monitorOver, last,
          created, placements, brain>>

\* ------------------------------------------------------------- records
DataCenter(id, capacity, latency) ==
  [id |-> id, capacity |-> capacity, current_load |-> 0, status |-> HEALTHY,
   latency_ms |-> latency, uptime |-> InitialUptime]

\* f"{service_name}-{dc.id}-{int(time.time())}": the three parts determine
\* the string and, for the names of the model, the string determines them.
InstanceId(service_name, dc_id, t) == <<service_name, dc_id, t>>

ServiceInstance(id, service_name, dc_id) ==
  [id |-> id, service_name |-> service_name, datacenter_id |-> dc_id,
   cpu_usage |-> 0, memory_usage |-> 0, health |-> FullHealth]

\* ------------------------------------------------------------- helpers
Min(a, b) == IF a < b THEN a ELSE b
Max(a, b) == IF a > b THEN a ELSE b

\* a.current_load / a.capacity < b.current_load / b.capacity
RatioLess(a, b) == a.current_load * b.capacity < b.current_load * a.capacity
RatioEq(a, b) == a.current_load * b.capacity = b.current_load * a.capacity

\* seq[:k] of Python
Take(seq, k) ==
  IF k >= 0 THEN SubSeq(seq, 1, Min(k, Len(seq)))
  ELSE SubSeq(seq, 1, Max(Len(seq) + k, 0))

\* Mutant of SortedByRatio: a sort that is not stable, pools of equal ratio
\* come out in reverse dict order.
SortedByRatioUnstable(pools) ==
  LET n == Len(pools)
      Before(j, i) == \/ RatioLess(pools[j], pools[i])
                      \/ RatioEq(pools[j], pools[i]) /\ j > i
      Pos(i) == 1 + Cardinality({j \in 1..n : Before(j, i)})
  IN [p \in 1..n |-> CHOOSE i \in 1..n : Pos(i) = p]

\* sorted(pools, key = ratio): the indices of pools in the order of the
\* sorted list.  sorted is stable: equal keys keep dict order.
SortedByRatio(pools) ==
  LET n == Len(pools)
      Before(j, i) == \/ RatioLess(pools[j], pools[i])
                      \/ RatioEq(pools[j], pools[i]) /\ j < i
      Pos(i) == 1 + Cardinality({j \in 1..n : Before(j, i)})
  IN [p \in 1..n |-> CHOOSE i \in 1..n : Pos(i) = p]

\* self.services[instance_id] = instance: a new key is appended, an
\* existing key keeps its place in the dict and gets the new value.
StoreInstance(svcs, inst) ==
  IF \E i \in 1..Len(svcs) : svcs[i].id = inst.id
  THEN [i \in 1..Len(svcs) |-> IF svcs[i].id = inst.id THEN inst ELSE svcs[i]]
  ELSE Append(svcs, inst)

\* ------------------------------------------------------------- placement
\* deploy_service, lines 101-104: the pools picked, as indices in the
\* order of the sorted list.
SelectDatacenters(pools, replicas) == Take(SortedByRatio(pools), replicas)

\* Mutant of AddLoad: the load is clamped to the capacity of the pool.
AddLoadClamped(dc) ==
  [dc EXCEPT !.current_load = Max(@, Min(@ + LoadUnit, dc.capacity))]

\* dc.current_load += 1000: no look at dc.capacity
AddLoad(dc) == [dc EXCEPT !.current_load = @ + LoadUnit]

\* deploy_service, lines 106-115: the loop over the picked pools.  st is
\* [pools, services, deployed, selected]; sel the picked indices; p the
\* position in sel.
RECURSIVE DeployLoop(_, _, _, _, _)
DeployLoop(st, sel, p, service_name, t) ==
  IF p > Len(sel) THEN st
  ELSE LET i == sel[p]
           instance_id == InstanceId(service_name, st.pools[i].id, t)
           instance == ServiceInstance(instance_id, service_name, st.pools[i].id)
       IN DeployLoop(
            [pools |-> [st.pools EXCEPT ![i] = AddLoad(@)],
             services |-> StoreInstance(st.services, instance),
             deployed |-> Append(st.deployed, instance_id),
             selected |-> Append(st.selected, st.pools[i].id)],
            sel, p + 1, service_name, t)

\* Mutant of DeployService: pools of equal ratio are taken in an order that
\* depends on the clock reading.
DeployServiceClockTies(pools, svcs, t, service_name, replicas) ==
  DeployLoop([pools |-> pools, services |-> svcs, deployed |-> <<>>,
              selected |-> <<>>],
             Take(IF t % 2 = 1 THEN SortedByRatioUnstable(pools)
                  ELSE SortedByRatio(pools), replicas),
             1, service_name, t)

\* deploy_service(service_name, replicas) called at clock t: the pools and
\* the instance table after the call, the list returned (deployed), the ids
\* of the pools picked (selected).
DeployService(pools, svcs, t, service_name, replicas) ==
  DeployLoop([pools |-> pools, services |-> svcs, deployed |-> <<>>,
              selected |-> <<>>],
             SelectDatacenters(pools, replicas), 1, service_name, t)

\* ------------------------------------------------------------- autoscaling
\* [s for s in self.services.values() if s.service_name == service_name]
InstancesOf(svcs, service_name) ==
  SelectSeq(svcs, LAMBDA s : s.service_name = service_name)

\* del self.services[id] for every id of the set ids
DeleteInstances(svcs, ids) == SelectSeq(svcs, LAMBDA s : s.id \notin ids)

\* scale_service(service_name, target_instances) called at clock t
ScaleService(pools, svcs, t, service_name, target_instances) ==
  LET current_instances == InstancesOf(svcs, service_name)
      current_count == Len(current_instances)
  IN IF target_instances > current_count
     THEN LET needed == target_instances - current_count
              d == DeployService(pools, svcs, t, service_name, needed)
          IN [pools |-> d.pools, services |-> d.services, deployed |-> d.deployed]
     ELSE IF target_instances < current_count
     THEN LET to_remove == current_count - target_instances
              \* current_instances.pop(), to_remove times: the last ones
              popped == {current_instances[i].id :
                           i \in (current_count - to_remove + 1)..current_count}
          IN [pools |-> pools, services |-> DeleteInstances(svcs, popped),
              deployed |-> <<>>]
     ELSE [pools |-> pools, services |-> svcs, deployed |-> <<>>]

\* ------------------------------------------------------------- routing
NoPool == "None"

\* Mutant of Routable: the status of the pool is not looked at.
RoutableWhateverStatus(dc) == 10 * dc.current_load < 9 * dc.capacity

\* dc.status == HEALTHY and dc.current_load < dc.capacity * 0.9
Routable(dc) == dc.status = HEALTHY /\ 10 * dc.current_load < 9 * dc.capacity

\* Mutant of RouteTraffic: the first available pool, whatever its latency.
RouteTrafficFirstAvailable(pools, user_location) ==
  LET available == {i \in 1..Len(pools) : Routable(pools[i])}
  IN IF available = {} THEN NoPool
     ELSE pools[CHOOSE i \in available : \A j \in available : i <= j].id

\* route_traffic(user_location): min(available_dcs, key = latency) is the
\* first pool of least latency in dict order; user_location is not read.
RouteTraffic(pools, user_location) ==
  LET available == {i \in 1..Len(pools) : Routable(pools[i])}
  IN IF available = {} THEN NoPool
     ELSE LET best == CHOOSE i \in available :
                        \A j \in available :
                          \/ pools[i].latency_ms < pools[j].latency_ms
                          \/ pools[i].latency_ms = pools[j].latency_ms /\ i <= j
          IN pools[best].id

\* ------------------------------------------------------------- healing
\* dc.current_load > dc.capacity * 0.95
Overloaded(dc) == 20 * dc.current_load > 19 * dc.capacity

\* Mutant of MigrationAmount: the factor 2 for 0.2.
MigrationAmountTwice(load) == load * 2

\* Mutant of MigrationAmount: rounded to the nearest unit instead of cut.
MigrationAmountRounded(load) == (2 * load + 5) \div 10

\* int(dc.current_load * 0.2)
MigrationAmount(load) == load \div 5

\* Mutant of HealOverload: the load taken from the source is not given to
\* the target.
HealOverloadDropsLoad(pools, i, healing) ==
  IF Len(pools) = 1
  THEN [pools |-> pools, healing |-> healing, raised |-> TRUE]
  ELSE [pools |-> [pools EXCEPT
                     ![i].current_load = @ - MigrationAmount(pools[i].current_load)],
        healing |-> healing + 1, raised |-> FALSE]

\* _heal_overload(pools[i]): min over the other pools by ratio is the first
\* pool of least ratio in dict order; min of an empty list raises ValueError
\* before anything is changed.
HealOverload(pools, i, healing) ==
  LET others == {j \in 1..Len(pools) : pools[j].id # pools[i].id}
  IN IF others = {}
     THEN [pools |-> pools, healing |-> healing, raised |-> TRUE]
     ELSE LET target == CHOOSE j \in others :
                          \A k \in others :
                            \/ RatioLess(pools[j], pools[k])
                            \/ RatioEq(pools[j], pools[k]) /\ j <= k
              migration_amount == MigrationAmount(pools[i].current_load)
          IN [pools |-> [pools EXCEPT
                           ![i].current_load = @ - migration_amount,
                           ![target].current_load = @ + migration_amount],
              healing |-> healing + 1, raised |-> FALSE]

\* Mutant of HealDatacenter: the uptime is reset, the status is left as found.
HealDatacenterStatusKept(pools, i, healing) ==
  [pools |-> [pools EXCEPT ![i].uptime = RecoveredUptime],
   healing |-> healing + 1, raised |-> FALSE]

\* Mutant of HealDatacenter: the pool is healed, the counter is left alone.
HealDatacenterUncounted(pools, i, healing) ==
  [pools |-> [pools EXCEPT ![i].status = HEALTHY, ![i].uptime = RecoveredUptime],
   healing |-> healing, raised |-> FALSE]

\* _heal_datacenter(pools[i])
HealDatacenter(pools, i, healing) ==
  [pools |-> [pools EXCEPT ![i].status = HEALTHY, ![i].uptime = RecoveredUptime],
   healing |-> healing + 1, raised |-> FALSE]

\* _heal_service(service)
HealService(service) ==
  [service EXCEPT !.health = FullHealth, !.cpu_usage = HealedCpu,
                  !.memory_usage = HealedMemory]

\* monitor_and_heal, lines 166-168: the overload check of pools[i].
CheckOverload(pools, i, healing) ==
  IF Overloaded(pools[i]) THEN HealOverload(pools, i, healing)
  ELSE [pools |-> pools, healing |-> healing, raised |-> FALSE]

\* monitor_and_heal, lines 170-172: the status check of pools[i], on what
\* the overload check left (s).
CheckStatus(s, i) ==
  IF ~s.raised /\ s.pools[i].status # HEALTHY
  THEN HealDatacenter(s.pools, i, s.healing)
  ELSE s

\* monitor_and_heal, lines 165-172: the loop over the pools from index i on,
\* s being what the checks of the pools before i left.  What _heal_overload
\* raises ends the loop.
RECURSIVE MonitorPools(_, _)
MonitorPools(s, i) ==
  IF s.raised \/ i > Len(s.pools) THEN s
  ELSE MonitorPools(CheckStatus(CheckOverload(s.pools, i, s.healing), i), i + 1)

\* Mutant of Unhealthy: an instance at exactly 0.5 counts as unhealthy.
UnhealthyAtThreshold(service) == service.health <= HealthThreshold

\* service.health < 0.5
Unhealthy(service) == service.health < HealthThreshold

\* monitor_and_heal: the pools, the instance table and the counter after the
\* call, and whether it raised (then the loop over the instances never ran).
MonitorAndHeal(pools, svcs, healing) ==
  LET m == MonitorPools([pools |-> pools, healing |-> healing, raised |-> FALSE], 1)
      sick == {i \in 1..Len(svcs) : Unhealthy(svcs[i])}
  IN IF m.raised
     THEN [pools |-> m.pools, services |-> svcs, healing |-> m.healing,
           raised |-> TRUE]
     ELSE [pools |-> m.pools,
           services |-> [i \in 1..Len(svcs) |->
                           IF i \in sick THEN HealService(svcs[i]) ELSE svcs[i]],
           healing |-> m.healing + Cardinality(sick), raised |-> FALSE]

\* ------------------------------------------------------------- the machine
RECURSIVE TotalLoadFrom(_, _)
TotalLoadFrom(pools, i) ==
  IF i > Len(pools) THEN 0 ELSE pools[i].current_load + TotalLoadFrom(pools, i + 1)
TotalLoad(pools) == TotalLoadFrom(pools, 1)

\* dc.current_load > dc.capacity
AboveCapacity(pools) ==
  {pools[i].id : i \in {j \in 1..Len(pools) : pools[j].current_load > pools[j].capacity}}

\* The creation order after a call: the ids of log that are still in the
\* table svcs, then the ids the call deployed, an id deployed again (the
\* instance under it is a new one) moving to the end.
RECURSIVE Born(_, _)
Born(log, deployed) ==
  IF deployed = <<>> THEN log
  ELSE Born(Append(SelectSeq(log, LAMBDA id : id # Head(deployed)), Head(deployed)),
            Tail(deployed))
CreationOrder(log, svcs, deployed) ==
  Born(SelectSeq(log, LAMBDA id : \E i \in 1..Len(svcs) : svcs[i].id = id), deployed)

\* What a call leaves in last: the operation, its arguments, what it
\* returned, and the registry as it was when the call began.
Call(op, service_name, n, ret, selected, routed, raised) ==
  [op |-> op, service_name |-> service_name, n |-> n, ret |-> ret,
   selected |-> selected, routed |-> routed, raised |-> raised,
   pools |-> datacenters, services |-> services, now |-> now,
   healing_actions |-> healing_actions, monitorOver |-> monitorOver,
   created |-> created]

\* What a step of the environment leaves in last.
Event(op) ==
  [op |-> op, service_name |-> "", n |-> 0, ret |-> <<>>,
   selected |-> <<>>, routed |-> NoPool, raised |-> FALSE,
   pools |-> <<>>, services |-> <<>>, now |-> 0,
   healing_actions |-> 0, monitorOver |-> {}, created |-> <<>>]

\* PrometheusInfrastructureBrain.__init__ and orchestrator.global_traffic = 0:
\* no traffic handled, run_management_cycle not called.
BrainIdle ==
  /\ global_traffic = 0
  /\ total_requests_served = 0
  /\ pc = "idle"
  /\ cycle = 0
  /\ cycles = 0
  /\ atStart = [global_traffic |-> 0, services |-> <<>>]

\* initialize_global_infrastructure over the first n regions of the list,
\* with capacities from caps and latencies from lats; nothing deployed,
\* nothing healed.
Fleet(n, caps, lats) ==
  /\ \E c \in [1..n -> caps] :
       \E l \in [1..n -> lats] :
         datacenters = [i \in 1..n |-> DataCenter(Regions[i], c[i], l[i])]
  /\ services = <<>>
  /\ now = 0
  /\ healing_actions = 0
  /\ faults = 0
  /\ monitorOver = {}
  /\ last = Event("init")
  /\ created = <<>>
  /\ placements = 0
  /\ BrainIdle

Init == \E n \in 1..MaxPools : Fleet(n, Capacities, {BaseLatency})

\* The clock only moves forward: what int(time.time()) can return to a
\* call made when the last reading was now.
Readings == now..MaxTime

\* await orchestrator.deploy_service(service_name, replicas), the clock
\* reading t; room is the number of placements the fleet may hold.
Deploy(service_name, replicas, t, room) ==
  /\ TotalLoad(datacenters) + LoadUnit * Min(replicas, Len(datacenters))
       <= LoadUnit * room
  /\ \E d \in {DeployService(datacenters, services, t, service_name, replicas)} :
        /\ datacenters' = d.pools
        /\ services' = d.services
        /\ last' = Call("deploy", service_name, replicas, d.deployed, d.selected,
                        NoPool, FALSE)
        /\ created' = CreationOrder(created, d.services, d.deployed)
        /\ placements' = placements + Len(d.deployed)
  /\ now' = IF Min(replicas, Len(datacenters)) = 0 THEN now ELSE t
  /\ t = now'
  /\ UNCHANGED <<healing_actions, faults, monitorOver, brain>>

\* await orchestrator.scale_service(service_name, target_instances), the
\* clock reading t if it deploys; room is the number of placements the
\* fleet may hold.
Scale(service_name, target_instances, t, room) ==
  \E r \in {ScaleService(datacenters, services, t, service_name, target_instances)} :
     /\ TotalLoad(r.pools) <= LoadUnit * room
     /\ created' = CreationOrder(created, r.services, r.deployed)
     /\ placements' = placements + Len(r.deployed)
     /\ datacenters' = r.pools
     /\ services' = r.services
     /\ now' = IF r.pools = datacenters THEN now ELSE t
     /\ t = now'
     /\ last' = Call("scale", service_name, target_instances, <<>>, <<>>,
                     NoPool, FALSE)
     /\ UNCHANGED <<healing_actions, faults, monitorOver, brain>>

\* orchestrator.route_traffic(user_location)
Route(user_location) ==
  /\ last' = Call("route", "", 0, <<>>, <<>>,
                  RouteTraffic(datacenters, user_location), FALSE)
  /\ UNCHANGED <<datacenters, services, now, healing_actions, faults, monitorOver,
                 created, placements, brain>>

\* await healing_engine.monitor_and_heal()
Monitor ==
  \E m \in {MonitorAndHeal(datacenters, services, healing_actions)} :
     /\ healing_actions < MaxHealing
     /\ datacenters' = m.pools
     /\ services' = m.services
     /\ healing_actions' = m.healing
     /\ monitorOver' = IF m.raised THEN {} ELSE AboveCapacity(m.pools)
     /\ last' = Call("monitor", "", 0, <<>>, <<>>, NoPool, m.raised)
     /\ UNCHANGED <<now, faults, created, placements, brain>>

\* The environment reports a pool as degraded, critical or offline
\* (DataCenter.status is written from outside the engine).
PoolFault(i, status) ==
  /\ datacenters[i].status = HEALTHY
  /\ faults < MaxFaults
  /\ faults' = faults + 1
  /\ datacenters' = [datacenters EXCEPT ![i].status = status]
  /\ last' = Event("pool_fault")
  /\ UNCHANGED <<services, now, healing_actions, monitorOver, created, placements,
                 brain>>

\* The environment reports an instance's health score
\* (ServiceInstance.health is written from outside the engine).
InstanceFault(i, health) ==
  /\ services[i].health = FullHealth
  /\ faults < MaxFaults
  /\ faults' = faults + 1
  /\ services' = [services EXCEPT ![i].health = health]
  /\ last' = Event("instance_fault")
  /\ UNCHANGED <<datacenters, now, healing_actions, monitorOver, created,
                 placements, brain>>

\* handle_traffic draws user_location among the pool ids; route_traffic
\* never reads it, so one id stands for them all.
Origins(pools) == {pools[1].id}

\* Replica counts and targets asked for: up to one more than the pools.
MaxReplicas(pools) == Len(pools) + 1

Next ==
  \/ \E s \in ServiceNames : \E k \in 0..MaxReplicas(datacenters) :
       \E t \in Readings : Deploy(s, k, t, MaxPlacements)
  \/ \E s \in ServiceNames : \E k \in 0..MaxReplicas(datacenters) :
       \E t \in Readings : Scale(s, k, t, MaxPlacements)
  \/ \E origin \in Origins(datacenters) : Route(origin)
  \/ Monitor
  \/ \E i \in 1..Len(datacenters) :
       \E st \in RegionStatus \ {HEALTHY} : PoolFault(i, st)
  \/ \E i \in 1..Len(services) : \E h \in SickHealths : InstanceFault(i, h)

Spec == Init /\ [][Next]_vars

\* ------------------------------------------------------------- scaling
\* Placement and autoscaling alone, on a fleet that may hold one placement
\* more than in Spec: deploy_service and scale_service called in any order.
NextScaling ==
  \/ \E s \in ServiceNames : \E k \in 0..MaxReplicas(datacenters) :
       \E t \in Readings : Deploy(s, k, t, MaxScalePlacements)
  \/ \E s \in ServiceNames : \E k \in 0..MaxReplicas(datacenters) :
       \E t \in Readings : Scale(s, k, t, MaxScalePlacements)

SpecScaling == Init /\ [][NextScaling]_vars

\* ------------------------------------------------------------- routing
\* Routing on fleets whose pools differ in latency: requests are routed
\* while services are deployed and pools are reported unhealthy.
InitRouting == \E n \in 1..MaxPools : Fleet(n, Capacities, Latencies)

NextRouting ==
  \/ \E s \in ServiceNames : \E k \in 0..MaxReplicas(datacenters) :
       \E t \in Readings : Deploy(s, k, t, MaxPlacements)
  \/ \E origin \in Origins(datacenters) : Route(origin)
  \/ \E i \in 1..Len(datacenters) :
       \E st \in RegionStatus \ {HEALTHY} : PoolFault(i, st)

SpecRouting == InitRouting /\ [][NextRouting]_vars

\* ------------------------------------------------------------- migration
\* The healing engine on fleets whose pools carry load already: each pool
\* has a capacity of Capacities and a current_load of Loads.
InitMigration ==
  \E n \in 1..MaxPools : \E c \in [1..n -> Capacities] : \E l \in [1..n -> Loads] :
    /\ datacenters = [i \in 1..n |->
                        [DataCenter(Regions[i], c[i], BaseLatency)
                           EXCEPT !.current_load = l[i]]]
    /\ services = <<>>
    /\ now = 0
    /\ healing_actions = 0
    /\ faults = 0
    /\ monitorOver = {}
    /\ last = Event("init")
    /\ created = <<>>
    /\ placements = 0
    /\ BrainIdle

\* await self._heal_overload(dc), dc the pool of index i, called as
\* monitor_and_heal calls it: on a pool above 0.95 of its capacity.
Migrate(i) ==
  /\ Overloaded(datacenters[i])
  /\ healing_actions < MaxHealing
  /\ \E h \in {HealOverload(datacenters, i, healing_actions)} :
        /\ datacenters' = h.pools
        /\ healing_actions' = h.healing
        /\ last' = Call("heal_overload", "", i, <<>>, <<>>, NoPool, h.raised)
  /\ UNCHANGED <<services, now, faults, monitorOver, created, placements, brain>>

NextMigration ==
  \/ \E i \in 1..Len(datacenters) : Migrate(i)
  \/ Monitor

SpecMigration == InitMigration /\ [][NextMigration]_vars

\* ------------------------------------------------------------- the brain
\* The replicas initialize() asks for on a fleet of n pools: api-gateway on
\* every pool (12 of 12), auth-service on two thirds of them (8 of 12).
CoreReplicas(service_name, n) ==
  IF service_name = "api-gateway" THEN n ELSE (2 * n) \div 3

\* PrometheusInfrastructureBrain.initialize() on a fleet of n pools: the
\* pools are registered, then the core services are deployed, within one
\* second.
InitBrain ==
  \E n \in 1..MaxPools : \E c \in [1..n -> Capacities] :
    LET fleet == [i \in 1..n |-> DataCenter(Regions[i], c[i], BaseLatency)]
        gateway == DeployService(fleet, <<>>, 0, "api-gateway",
                                 CoreReplicas("api-gateway", n))
        auth == DeployService(gateway.pools, gateway.services, 0, "auth-service",
                              CoreReplicas("auth-service", n))
    IN /\ datacenters = auth.pools
       /\ services = auth.services
       /\ now = 0
       /\ healing_actions = 0
       /\ faults = 0
       /\ monitorOver = {}
       /\ last = Event("init")
       /\ created = gateway.deployed \o auth.deployed
       /\ placements = Len(gateway.deployed) + Len(auth.deployed)
       /\ BrainIdle

\* Mutant of ShouldScale: the threshold of the cycle before.
ShouldScaleLastThreshold(traffic, c) == traffic > TrafficPerScale * c

\* self.orchestrator.global_traffic > 100000 * (cycle + 1)
ShouldScale(traffic, c) == traffic > TrafficPerScale * (c + 1)

\* Mutant of LoopNext: the loop is left one cycle early.
LoopNextEarly(c, n) == IF c + 2 < n THEN "traffic" ELSE "report"

\* for cycle in range(cycles): where the loop goes when the body of cycle c
\* has ended.
LoopNext(c, n) == IF c + 1 < n THEN "traffic" ELSE "report"

\* Nothing of run_management_cycle is running: other code can run.
Suspended == pc \in {"idle", "sleep", "done"}

\* run_management_cycle(cycles = n) is called: range(n) is entered.
RunManagementCycle(n) ==
  /\ pc \in {"idle", "done"}
  /\ global_traffic + RequestsPerCycle * n <= RequestsPerCycle * MaxBatches
  /\ cycles' = n
  /\ cycle' = 0
  /\ pc' = LoopNext(-1, n)
  /\ atStart' = [global_traffic |-> global_traffic,
                 services |-> [i \in 1..Len(services) |-> services[i].id]]
  /\ UNCHANGED <<datacenters, services, now, healing_actions, faults, monitorOver,
                 last, created, placements, global_traffic, total_requests_served>>

\* await self.handle_traffic(num_requests = 50000): no request changes a
\* pool, so all of them are routed alike.
HandleTraffic(user_location) ==
  /\ pc = "traffic"
  /\ \E dc_id \in {RouteTraffic(datacenters, user_location)} :
        /\ total_requests_served' =
              total_requests_served + (IF dc_id # NoPool THEN RequestsPerCycle ELSE 0)
        /\ last' = Call("handle_traffic", "", RequestsPerCycle, <<>>, <<>>, dc_id, FALSE)
  /\ global_traffic' = global_traffic + RequestsPerCycle
  /\ pc' = "monitor"
  /\ UNCHANGED <<datacenters, services, now, healing_actions, faults, monitorOver,
                 created, placements, cycle, cycles, atStart>>

\* await self.healing_engine.monitor_and_heal(): what it raises is caught
\* nowhere and ends run_management_cycle.
MonitorPhase ==
  /\ pc = "monitor"
  /\ \E m \in {MonitorAndHeal(datacenters, services, healing_actions)} :
        /\ datacenters' = m.pools
        /\ services' = m.services
        /\ healing_actions' = m.healing
        /\ monitorOver' = IF m.raised THEN {} ELSE AboveCapacity(m.pools)
        /\ last' = Call("monitor", "", 0, <<>>, <<>>, NoPool, m.raised)
        /\ pc' = IF m.raised THEN "failed" ELSE "autoscale"
  /\ UNCHANGED <<now, faults, created, placements, global_traffic,
                 total_requests_served, cycle, cycles, atStart>>

\* if global_traffic > 100000 * (cycle + 1):
\*     await self.orchestrator.scale_service("api-gateway", 15)
\* the clock reading t if it deploys
Autoscale(t) ==
  /\ pc = "autoscale"
  /\ pc' = "sleep"
  /\ IF ShouldScale(global_traffic, cycle)
     THEN \E r \in {ScaleService(datacenters, services, t, "api-gateway", ScaleTarget)} :
            /\ datacenters' = r.pools
            /\ services' = r.services
            /\ now' = IF r.pools = datacenters THEN now ELSE t
            /\ created' = CreationOrder(created, r.services, r.deployed)
            /\ placements' = placements + Len(r.deployed)
            /\ last' = Call("scale", "api-gateway", ScaleTarget, <<>>, <<>>,
                            NoPool, FALSE)
     ELSE UNCHANGED <<datacenters, services, now, created, placements, last>>
  /\ t = now'
  /\ UNCHANGED <<healing_actions, faults, monitorOver, global_traffic,
                 total_requests_served, cycle, cycles, atStart>>

\* await asyncio.sleep(0.1) has returned: the loop goes to its next cycle,
\* or to the report after the last one.
Sleep ==
  /\ pc = "sleep"
  /\ cycle' = cycle + 1
  /\ pc' = LoopNext(cycle, cycles)
  /\ UNCHANGED <<datacenters, services, now, healing_actions, faults, monitorOver,
                 last, created, placements, global_traffic, total_requests_served,
                 cycles, atStart>>

\* self._generate_report(): the counters are logged, nothing is written.
GenerateReport ==
  /\ pc = "report"
  /\ pc' = "done"
  /\ UNCHANGED <<datacenters, services, now, healing_actions, faults, monitorOver,
                 last, created, placements, global_traffic, total_requests_served,
                 cycle, cycles, atStart>>

\* The brain's loop; the environment writes a status or a health score
\* only while the loop is suspended.
NextBrain ==
  \/ \E n \in 0..MaxCycles : RunManagementCycle(n)
  \/ \E origin \in Origins(datacenters) : HandleTraffic(origin)
  \/ MonitorPhase
  \/ \E t \in Readings : Autoscale(t)
  \/ Sleep
  \/ GenerateReport
  \/ \E i \in 1..Len(datacenters) :
       \E st \in RegionStatus \ {HEALTHY} : Suspended /\ PoolFault(i, st)
  \/ \E i \in 1..Len(services) :
       \E h \in SickHealths : Suspended /\ InstanceFault(i, h)

SpecBrain == InitBrain /\ [][NextBrain]_vars

\* ------------------------------------------------------------- properties
\* Helpers of the properties below.
Ids(seq) == {seq[i] : i \in 1..Len(seq)}
PoolIndex(pools, id) == CHOOSE i \in 1..Len(pools) : pools[i].id = id
IsDeploy == last.op = "deploy"
IsScale == last.op = "scale"
IsMonitor == last.op = "monitor"
IsRoute == last.op = "route"

\* The pool ids in ascending string order (Python's str comparison).
IdOrder ==
  << "alibaba-cn-north-1", "aws-ap-southeast-1", "aws-ca-central-1",
     "aws-eu-central-1", "aws-sa-east-1", "aws-us-east-1", "azure-af-south-1",
     "azure-ap-south-1", "azure-eu-west-1", "gcp-ap-northeast-1",
     "gcp-us-west-1", "oracle-me-south-1" >>
IdRank(id) == CHOOSE r \in 1..Len(IdOrder) : IdOrder[r] = id

\* C1: after scale_service(s, N) has returned, the registry holds exactly N
\* instances whose service_name is s.
C1_ScaleExact ==
  IsScale => Len(InstancesOf(services, last.service_name)) = last.n

\* C2: a pool that is above capacity when a monitor_and_heal call returns is
\* not above capacity when the next monitor_and_heal call returns.
C2_NoLastingOverload ==
  (IsMonitor /\ ~last.raised) => monitorOver \cap last.monitorOver = {}

\* C3: when monitor_and_heal has returned, every pool is HEALTHY and every
\* instance whose health was below 0.5 before the call has health 1.0.
C3_HealingConvergence ==
  (IsMonitor /\ ~last.raised) =>
    /\ \A i \in 1..Len(datacenters) : datacenters[i].status = HEALTHY
    /\ \A i \in 1..Len(last.services) :
         last.services[i].health < HealthThreshold =>
           \E j \in 1..Len(services) :
             /\ services[j].id = last.services[i].id
             /\ services[j].health = FullHealth

\* A monitor call that returned after it found a pool not HEALTHY and
\* another pool overloaded.
C3_Witness ==
  /\ IsMonitor /\ ~last.raised
  /\ \E i \in 1..Len(last.pools) : last.pools[i].status # HEALTHY
  /\ \E i \in 1..Len(last.pools) : 20 * last.pools[i].current_load > 19 * last.pools[i].capacity

\* A monitor call that returned after it found an instance below 0.5.
C3_WitnessInstance ==
  /\ IsMonitor /\ ~last.raised
  /\ \E i \in 1..Len(last.services) : last.services[i].health < HealthThreshold

\* C4: route_traffic never returns the id of a pool that is not HEALTHY or
\* whose load is at or above 0.9 of its capacity.
C4_RouteExclusion ==
  (IsRoute /\ last.routed # NoPool) =>
    \E i \in 1..Len(datacenters) :
      /\ datacenters[i].id = last.routed
      /\ datacenters[i].status = HEALTHY
      /\ ~(10 * datacenters[i].current_load >= 9 * datacenters[i].capacity)

\* route_traffic returned a pool although an earlier pool of the dict was
\* not HEALTHY and another one was at or above 0.9 of its capacity.
C4_Witness ==
  /\ IsRoute /\ last.routed # NoPool
  /\ \E i \in 1..Len(datacenters) :
       /\ i < PoolIndex(datacenters, last.routed)
       /\ datacenters[i].status # HEALTHY
  /\ \E i \in 1..Len(datacenters) :
       10 * datacenters[i].current_load >= 9 * datacenters[i].capacity

\* C5: current_load >= 0 for every pool, in every reachable state.
C5_LoadNonNegative ==
  \A i \in 1..Len(datacenters) : datacenters[i].current_load >= 0

\* A monitor call has migrated load away from a pool, and an earlier
\* scale-down has left load without an instance behind.
C5_Witness ==
  /\ IsMonitor /\ ~last.raised
  /\ \E i \in 1..Len(datacenters) :
       /\ datacenters[i].current_load < last.pools[i].current_load
       /\ datacenters[i].current_load > 0
  /\ Len(services) * LoadUnit < TotalLoad(datacenters)

\* The pools a deploy of k replicas picks when the lowest ratio wins and
\* Before(j, i) says which of two pools of equal ratio goes first: those
\* with fewer than k pools ahead of them.
Lowest(pools, k, Before(_, _)) ==
  {pools[i].id : i \in {i \in 1..Len(pools) :
     Cardinality({j \in 1..Len(pools) :
        \/ pools[j].current_load * pools[i].capacity
             < pools[i].current_load * pools[j].capacity
        \/ /\ pools[j].current_load * pools[i].capacity
                = pools[i].current_load * pools[j].capacity
           /\ Before(j, i)}) < k}}

C7_PlacementDeterministic ==
  IsDeploy =>
    \A t \in 0..MaxTime : \A s \in ServiceNames : \A svcs \in {<<>>, services} :
      DeployService(last.pools, svcs, t, s, last.n).selected = last.selected

\* A deploy that had to choose among pools of equal ratio, made at a later
\* clock reading and on another instance table than the runs it is compared
\* with.
C7_Witness ==
  /\ IsDeploy /\ last.n > 0 /\ last.n < Len(last.pools)
  /\ now > 0
  /\ last.services # <<>>
  /\ \E i, j \in 1..Len(last.pools) :
       /\ last.pools[i].id \in Ids(last.selected)
       /\ last.pools[j].id \notin Ids(last.selected)
       /\ last.pools[i].current_load * last.pools[j].capacity
            = last.pools[j].current_load * last.pools[i].capacity

\* C8: deploy_service(s, k) with k <= number of pools adds exactly 1000 to
\* the load of k pools, whatever their capacity, and changes nothing else
\* of any pool.
C8_DeployFrame ==
  (IsDeploy /\ last.n <= Len(last.pools)) =>
    LET changed == {i \in 1..Len(last.pools) : datacenters[i] # last.pools[i]}
    IN /\ Len(datacenters) = Len(last.pools)
       /\ Cardinality(changed) = last.n
       /\ \A i \in changed :
            datacenters[i] =
              [last.pools[i] EXCEPT !.current_load = last.pools[i].current_load + 1000]

\* A deploy that took a pool of capacity 100 from load 0 to load 1000 and
\* left another pool alone.
C8_Witness ==
  /\ IsDeploy /\ last.n > 0 /\ last.n < Len(last.pools)
  /\ \E i \in 1..Len(datacenters) :
       /\ datacenters[i].capacity = 100
       /\ last.pools[i].current_load = 0
       /\ datacenters[i].current_load = 1000
  /\ \E i \in 1..Len(datacenters) : datacenters[i] = last.pools[i]

\* C9: deploy_service(s, k) with k <= number of pools returns k ids that
\* are pairwise distinct and were not in the instance table, and the table
\* grows by k entries.
C9_FreshInstances ==
  (IsDeploy /\ last.n <= Len(last.pools)) =>
    /\ Len(last.ret) = last.n
    /\ Cardinality(Ids(last.ret)) = last.n
    /\ \A i \in 1..Len(last.services) : last.services[i].id \notin Ids(last.ret)
    /\ Len(services) = Len(last.services) + last.n

\* C10: deploy_service(s, k) returns k ids or fails; it never returns fewer
\* than k ids as a success.
C10_AllOrInsufficientCapacity ==
  IsDeploy => (last.raised \/ Len(last.ret) = last.n)


\* The instances of the table before that are no longer in the table after.
Removed(before, after) ==
  SelectSeq(before, LAMBDA s : \A j \in 1..Len(after) : after[j].id # s.id)

\* C11: when scale_service has removed instances, the load of every pool is
\* what it was less 1000 for each removed instance the pool hosted, and not
\* below zero.
C11_ScaleDownReleasesLoad ==
  (IsScale /\ last.n < Len(InstancesOf(last.services, last.service_name))) =>
    \A i \in 1..Len(datacenters) :
      datacenters[i].current_load =
        Max(0, last.pools[i].current_load
                 - LoadUnit * Len(SelectSeq(Removed(last.services, services),
                     LAMBDA s : s.datacenter_id = datacenters[i].id)))


\* The state monitor_and_heal has nothing to do on: no pool above 0.95 of
\* its capacity, every pool HEALTHY, every instance at 0.5 or above.
AlreadyHealthy(pools, svcs) ==
  /\ \A i \in 1..Len(pools) :
       /\ ~(20 * pools[i].current_load > 19 * pools[i].capacity)
       /\ pools[i].status = HEALTHY
  /\ \A i \in 1..Len(svcs) : svcs[i].health >= HealthThreshold

\* C18: a monitor_and_heal call on an already-healthy state returns and
\* leaves every pool, every instance and healing_actions as they were.
C18_HealthyNoOp ==
  (IsMonitor /\ AlreadyHealthy(last.pools, last.services)) =>
    /\ ~last.raised
    /\ datacenters = last.pools
    /\ services = last.services
    /\ healing_actions = last.healing_actions

\* A monitor call on an already-healthy state that holds a loaded pool and
\* an instance whose health is exactly 0.5.
C18_Witness ==
  /\ IsMonitor /\ AlreadyHealthy(last.pools, last.services)
  /\ \E i \in 1..Len(last.pools) : last.pools[i].current_load > 0
  /\ \E i \in 1..Len(last.services) : last.services[i].health = HealthThreshold


\* The number of _heal_overload invocations of one monitor_and_heal call
\* that begins its loop at pool i on the pools given: each overloaded pool
\* met is one, and the pools after it are met as its migration left them.
RECURSIVE Migrations(_, _)
Migrations(pools, i) ==
  IF i > Len(pools) THEN 0
  ELSE IF 20 * pools[i].current_load > 19 * pools[i].capacity
       THEN 1 + Migrations(HealOverload(pools, i, 0).pools, i + 1)
       ELSE Migrations(pools, i + 1)

\* C15: no step decreases healing_actions, and a monitor_and_heal call that
\* returns increases it by the number of load migrations it performed plus
\* the number of pools it found not HEALTHY plus the number of instances it
\* found with health below 0.5.
C15_HealingCount ==
  [][/\ healing_actions' >= healing_actions
     /\ (last'.op = "monitor" /\ ~last'.raised) =>
          healing_actions' = healing_actions
            + Migrations(datacenters, 1)
            + Cardinality({i \in 1..Len(datacenters) :
                             datacenters[i].status # HEALTHY})
            + Cardinality({i \in 1..Len(services) :
                             services[i].health < HealthThreshold})]_vars

\* A monitor call that returned after one migration and one pool found not
\* HEALTHY, with the counter two above what it was.
C15_Witness ==
  /\ IsMonitor /\ ~last.raised
  /\ healing_actions = last.healing_actions + 2
  /\ \E i \in 1..Len(last.pools) : last.pools[i].status # HEALTHY
  /\ \E i \in 1..Len(last.pools) :
       datacenters[i].current_load < last.pools[i].current_load

\* A monitor call that returned after it healed an instance, with the
\* counter one above what it was.
C15_WitnessInstance ==
  /\ IsMonitor /\ ~last.raised
  /\ healing_actions = last.healing_actions + 1
  /\ \E i \in 1..Len(last.services) : last.services[i].health < HealthThreshold


\* C20: in every reachable state the loads of the pools add up to 1000 times
\* the number of placements deploy_service has performed, and no step
\* (routing, migration, scale-down or any other) lowers the sum.
C20_TotalLoadIsPlacements ==
  /\ [](TotalLoad(datacenters) = LoadUnit * placements)
  /\ [][TotalLoad(datacenters') >= TotalLoad(datacenters)]_vars

\* A request is routed after a migration has split a placement's load
\* between two pools and a scale-down has removed an instance.
C20_Witness ==
  /\ IsRoute
  /\ placements > Len(services)
  /\ \E i \in 1..Len(datacenters) : datacenters[i].current_load % LoadUnit # 0


\* The place of an instance id in a creation order.
Rank(log, id) == CHOOSE r \in 1..Len(log) : log[r] = id

\* C12: when scale_service(s, N) is called with N below the count c of s,
\* the instances removed are the c - N instances of s created last, and the
\* instances of the other services are left as they were.
C12_ScaleDownLifo ==
  LET current == InstancesOf(last.services, last.service_name)
      ids == {current[i].id : i \in 1..Len(current)}
      newest == {x \in ids :
                   Cardinality({y \in ids : Rank(last.created, y) > Rank(last.created, x)})
                     < Len(current) - last.n}
  IN (IsScale /\ last.n < Len(current)) =>
       /\ {s.id : s \in Ids(Removed(last.services, services))} = newest
       /\ SelectSeq(services, LAMBDA s : s.service_name # last.service_name)
            = SelectSeq(last.services, LAMBDA s : s.service_name # last.service_name)


\* The pools route_traffic may send a request to.
Eligible(pools) ==
  {i \in 1..Len(pools) :
     pools[i].status = HEALTHY /\ 10 * pools[i].current_load < 9 * pools[i].capacity}

\* route_traffic returned None exactly when no pool is eligible, and
\* otherwise an eligible pool of least latency that goes before every other
\* eligible pool of that latency in the order Before.
RoutedBy(Before(_, _)) ==
  /\ last.routed = NoPool <=> Eligible(datacenters) = {}
  /\ Eligible(datacenters) # {} =>
       \E i \in Eligible(datacenters) :
         /\ datacenters[i].id = last.routed
         /\ \A j \in Eligible(datacenters) \ {i} :
              \/ datacenters[i].latency_ms < datacenters[j].latency_ms
              \/ /\ datacenters[i].latency_ms = datacenters[j].latency_ms
                 /\ Before(i, j)

\* C13 as claimed: route_traffic returns None exactly when no pool is
\* HEALTHY with load below 0.9 of its capacity, and otherwise an eligible
\* pool of least latency, the one of smallest id among those of least
\* latency.
C13_RouteTieById ==
  IsRoute =>
    RoutedBy(LAMBDA i, j : IdRank(datacenters[i].id) < IdRank(datacenters[j].id))

\* C13 as amended: route_traffic returns None exactly when no pool is
\* HEALTHY with load below 0.9 of its capacity, and otherwise an eligible
\* pool of least latency, the one registered first among those of least
\* latency.
C13_RouteTieByRegistration ==
  IsRoute => RoutedBy(LAMBDA i, j : i < j)

\* A request routed to a pool while another eligible pool of the same least
\* latency has a smaller id, a third pool being ineligible.
C13_Witness ==
  /\ IsRoute /\ last.routed # NoPool
  /\ \E j \in Eligible(datacenters) :
       /\ datacenters[j].latency_ms
            = datacenters[PoolIndex(datacenters, last.routed)].latency_ms
       /\ IdRank(datacenters[j].id) < IdRank(last.routed)
  /\ Eligible(datacenters) # 1..Len(datacenters)

\* A request that found no eligible pool: one pool is not HEALTHY, another
\* one is loaded to 0.9 of its capacity or more.
C13_WitnessNone ==
  /\ IsRoute /\ last.routed = NoPool
  /\ \E i \in 1..Len(datacenters) : datacenters[i].status # HEALTHY
  /\ \E i \in 1..Len(datacenters) :
       /\ datacenters[i].status = HEALTHY
       /\ 10 * datacenters[i].current_load >= 9 * datacenters[i].capacity


\* C14: a load migration away from a pool whose load L is above 0.95 of its
\* capacity, on a fleet with another pool, takes floor(0.2 * L) from the
\* pool and gives it to a pool of least load ratio among the others; the
\* remaining pools, the other fields of the two pools and the sum of the
\* loads stay as they were.
C14_MigrationExact ==
  (last.op = "heal_overload" /\ ~last.raised) =>
    LET before == last.pools
        source == last.n
        L == before[source].current_load
        moved == CHOOSE m \in 0..L : 5 * m <= L /\ L < 5 * (m + 1)
        others == (1..Len(before)) \ {source}
    IN /\ 20 * L > 19 * before[source].capacity
       /\ Len(datacenters) = Len(before)
       /\ datacenters[source] = [before[source] EXCEPT !.current_load = L - moved]
       /\ \E target \in others :
            /\ \A k \in others :
                 before[target].current_load * before[k].capacity
                   <= before[k].current_load * before[target].capacity
            /\ datacenters[target] =
                 [before[target] EXCEPT !.current_load = @ + moved]
            /\ \A k \in others \ {target} : datacenters[k] = before[k]
       /\ TotalLoad(datacenters) = TotalLoad(before)

\* The migration of the example: a pool of capacity 100 goes from load 96 to
\* load 77, a pool of lower ratio gains 19 and a third pool is left alone.
C14_Witness ==
  /\ last.op = "heal_overload" /\ ~last.raised
  /\ Len(datacenters) = 3
  /\ last.pools[last.n].capacity = 100
  /\ last.pools[last.n].current_load = 96
  /\ datacenters[last.n].current_load = 77
  /\ \E j \in 1..Len(datacenters) :
       datacenters[j].current_load = last.pools[j].current_load + 19
  /\ \E k \in 1..Len(datacenters) :
       k # last.n /\ datacenters[k] = last.pools[k] /\ datacenters[k].current_load > 0


\* C16: no error ends the control loop: every monitor_and_heal call of the
\* loop returns, and run_management_cycle is never left by an exception.
C16_LoopSurvives ==
  /\ (IsMonitor => ~last.raised)
  /\ pc # "failed"

\* C17: in run_management_cycle a cycle runs traffic handling, then
\* monitor_and_heal, then the autoscaling step, then the sleep; the cycle
\* number moves by one, and only when the sleep has returned; other code
\* runs only while the loop sleeps or is not running; the report is made
\* only when the last cycle is over.
C17_PhaseOrder ==
  [][/\ pc = "traffic" => pc' = "monitor"
     /\ pc = "monitor" => pc' \in {"autoscale", "failed"}
     /\ pc = "autoscale" => pc' = "sleep"
     /\ pc = "sleep" =>
          \/ pc' = "sleep" /\ cycle' = cycle
          \/ pc' \in {"traffic", "report"} /\ cycle' = cycle + 1
     /\ pc \in {"traffic", "monitor", "autoscale"} => cycle' = cycle /\ cycles' = cycles
     /\ pc' = "traffic" =>
          /\ cycle' < cycles'
          /\ pc \in {"sleep", "idle", "done"}
     /\ (pc' = "report" /\ pc # "report") =>
          /\ cycle' = cycles'
          /\ pc = "sleep" \/ cycles' = 0
     /\ pc = "report" => pc' = "done"
     /\ faults' # faults => pc' = pc /\ pc \in {"idle", "sleep", "done"}]_vars

\* The report of a run of MaxCycles cycles is due, a pool or an instance
\* having been reported unhealthy while the loop slept and healed in the
\* cycle after.
C17_Witness ==
  /\ pc = "report"
  /\ cycles = MaxCycles /\ cycle = MaxCycles
  /\ faults > 0
  /\ healing_actions > MaxCycles
  /\ global_traffic = RequestsPerCycle * MaxCycles

\* C19: in a run of run_management_cycle that began with global_traffic = 0,
\* global_traffic is 50000 * (cycle + 1) when the autoscaling condition is
\* tested, the condition is false, scale_service is not called and the
\* instance table holds the instances it held when the run began.
C19_NoScaleInFirstRun ==
  (pc # "idle" /\ atStart.global_traffic = 0) =>
    /\ pc = "autoscale" =>
         /\ global_traffic = RequestsPerCycle * (cycle + 1)
         /\ ~(global_traffic > TrafficPerScale * (cycle + 1))
    /\ last.op # "scale"
    /\ [i \in 1..Len(services) |-> services[i].id] = atStart.services

\* A run of MaxCycles cycles that began with global_traffic = 0 has made its
\* report, on a fleet that hosts instances.
C19_Witness ==
  /\ pc = "done"
  /\ atStart.global_traffic = 0
  /\ cycles = MaxCycles
  /\ global_traffic = RequestsPerCycle * MaxCycles
  /\ services # <<>>

\* A later run, which began with the traffic of the first, calls
\* scale_service.
C19_WitnessLaterRun ==
  /\ pc = "sleep"
  /\ atStart.global_traffic > 0
  /\ last.op = "scale"

====
